---- MODULE Spec2Model ----
(***************************************************************************)
(* Raster image -> SVG converter: the background job orchestrator          *)
(* (backend/app/tasks.py) on top of the best-effort cache                  *)
(* (backend/app/cache.py).                                                 *)
(*                                                                         *)
(* The orchestrator runs on one asyncio event loop.  A coroutine only      *)
(* gives up the loop where it awaits real I/O: here the two Redis calls    *)
(* inside CacheManager.get and CacheManager.set.  preprocess and vectorize *)
(* are "async def" without any await in their bodies, so awaiting them     *)
(* runs them inline.  Each action below is one such atomic segment; every  *)
(* state of the model is a point where another handler (a submission, a    *)
(* status query, a sweep) can run.                                         *)
(***************************************************************************)
EXTENDS Integers, Sequences, FiniteSets, TLC

\* ------------------------------------------------------------------ bounds
MaxTasks == 2          \* job ids handed out by the HTTP layer (uuid4, fresh)
MaxTicks == 1          \* clock advances, each of one cache ttl
MaxSeconds == 2        \* one-second clock advances between two of those
MaxWidth == 4          \* columns of the pixel grids handed to the vectorizer
MaxHeight == 2         \* rows of those grids

\* ------------------------------------------------------- program constants
cache_ttl == 3600      \* Settings.cache_ttl
default_max_age == 3600 \* cleanup_completed_tasks(max_age_seconds = 3600)
max_image_dimension == 4096 \* Settings.max_image_dimension

\* Optional values: None is the empty sequence, a present value a singleton
None == << >>
Some(x) == <<x>>
TheValue(o) == o[1]

TaskIds == 1..MaxTasks
\* one id beyond the ones handed out: an id that is never submitted
UnknownId == MaxTasks + 1
QueryIds == TaskIds \cup {UnknownId}

\* ------------------------------------------------------------------ inputs
\* "img" decodes; "bad" is a byte string PIL cannot identify
Images == {"img", "bad"}
Decodable(image_data) == image_data # "bad"

\* parameter dicts, as Python keeps them: a sequence of <<key, value>> items
ParamsBinary == << <<"color_mode", "binary">>, <<"simplify", TRUE>> >>
ParamsGray == << <<"color_mode", "grayscale">>, <<"simplify", TRUE>> >>
ParamSets == {ParamsBinary, ParamsGray}
\* the submissions tried: (image_data, params)
Requests == {<<"img", ParamsBinary>>, <<"img", ParamsGray>>, <<"bad", ParamsBinary>>}

\* what a run of vectorize can measure as its duration, in milliseconds
ProcTimes == {1, 2}

\* max_age_seconds arguments tried for the sweep
MaxAges == {0, default_max_age}

\* ------------------------------------------------------------ dict helpers
HasKey(d, k) == \E i \in 1..Len(d) : d[i][1] = k
\* dict.get(k, default)
Get(d, k, default) ==
    IF HasKey(d, k) THEN d[CHOOSE i \in 1..Len(d) : d[i][1] = k][2] ELSE default

\* alphabetical order of the parameter names (what sort_keys sorts by)
KeyRank(k) ==
    CASE k = "color_mode" -> 1
      [] k = "enhance" -> 2
      [] k = "resize" -> 3
      [] k = "simplify" -> 4
      [] k = "threshold" -> 5

\* faulty variant: the items left in the order the caller gave them
SortKeys_AsGiven(d) == d
\* json.dumps(params, sort_keys=True): the items in key order
RECURSIVE SortKeys(_)
SortKeys(d) ==
    IF Len(d) = 0 THEN << >>
    ELSE LET m == CHOOSE i \in 1..Len(d) :
                      \A k \in 1..Len(d) : KeyRank(d[i][1]) <= KeyRank(d[k][1])
             rest == [k \in 1..(Len(d) - 1) |-> IF k < m THEN d[k] ELSE d[k + 1]]
         IN  <<d[m]>> \o SortKeys(rest)

\* xxh64 over image bytes then the canonical parameters; collision-free on
\* the inputs of the model, so the digest is the pair it was computed from
generate_cache_key(image_data, params) ==
    [prefix |-> "svg:", digest |-> <<image_data, SortKeys(params)>>]

\* the keys, values and ttl arguments a direct caller of the cache passes
CacheKeys == {generate_cache_key("img", ParamsBinary),
              generate_cache_key("img", ParamsGray)}
Blobs == {[raw |-> "v1"], [raw |-> "v2"]}
Ttls == {None, Some(0), Some(1), Some(cache_ttl)}

\* ------------------------------------------------------------ pixel grids
\* a 2-D uint8 array: the sequence of its rows, top to bottom; the code
\* counts rows and columns from 0
Height(image_array) == Len(image_array)
Width(image_array) == Len(image_array[1])
Pixel(image_array, y, x) == image_array[y + 1][x + 1]
\* range(start, stop, step) as a sequence
Range(start, stop, step) ==
    [i \in 1..((stop - start + step - 1) \div step) |-> start + (i - 1) * step]
\* faulty variant: the later lists put first
RECURSIVE Concat_Reversed(_)
Concat_Reversed(seqs) ==
    IF Len(seqs) = 0 THEN << >> ELSE Concat_Reversed(Tail(seqs)) \o Head(seqs)
\* the lists of a list of lists joined in order (paths.append in nested loops)
RECURSIVE Concat(_)
Concat(seqs) == IF Len(seqs) = 0 THEN << >> ELSE Head(seqs) \o Concat(Tail(seqs))

\* ------------------------------------------------------------ preprocessing
\* the grayscale pixels "img" decodes to (smaller than max_image_dimension)
DecodedPixels == << <<0, 0, 255>>, <<128, 40, 127>> >>
\* line 76: (img_array > threshold).astype(np.uint8) * 255
ApplyThreshold(image_array, threshold) ==
    [r \in 1..Len(image_array) |->
        [c \in 1..Len(image_array[r]) |->
            IF image_array[r][c] > threshold THEN 255 ELSE 0]]
\* _enhance_image: contrast 1.2 about the mean, here 128, clipped to uint8
\* (the sharpness filter leaves a grid this small as it is)
Clip(v) == IF v < 0 THEN 0 ELSE IF v > 255 THEN 255 ELSE v
_enhance_image(image_array) ==
    [r \in 1..Len(image_array) |->
        [c \in 1..Len(image_array[r]) |->
            Clip(128 + ((image_array[r][c] - 128) * 12) \div 10)]]

\* faulty variant: the scale factor taken from the shorter side
LongSide_Shorter(width, height) == IF width < height THEN width ELSE height
\* line 58: min(max_dimension / width, max_dimension / height) is
\* max_dimension over the longer side
LongSide(width, height) == IF width > height THEN width ELSE height
RECURSIVE IsPowerOfTwo(_)
IsPowerOfTwo(n) == n = 1 \/ (n % 2 = 0 /\ IsPowerOfTwo(n \div 2))
\* line 59: int(n * ratio) with ratio = max_dimension / long_side.  The
\* product is computed in binary floating point: when n * max_dimension /
\* long_side is a whole number and the ratio has no finite binary expansion,
\* the double can fall just short of that number (rounds_down), and int()
\* then truncates to the number below (4237 * (4096 / 4237) gives 4095);
\* otherwise the double lies between the same two integers as the exact
\* product
Scaled(n, long_side, rounds_down) ==
    LET exact == (n * max_image_dimension) \div long_side
    IN  IF /\ (n * max_image_dimension) % long_side = 0
           /\ ~IsPowerOfTwo(long_side)
           /\ rounds_down
        THEN exact - 1
        ELSE exact
\* lines 56-64, the resize stage on an image of size (width, height): the
\* size it leaves and what it writes into the metadata; Image.resize raises
\* on a size with a zero in it
ResizeStage(width, height, resize, rounds_down) ==
    IF resize /\ (width > max_image_dimension \/ height > max_image_dimension)
    THEN LET long_side == LongSide(width, height)
             new_size == <<Scaled(width, long_side, rounds_down[1]),
                           Scaled(height, long_side, rounds_down[2])>>
         IN  IF new_size[1] < 1 \/ new_size[2] < 1
             THEN [ok |-> FALSE, ran |-> TRUE, new_size |-> new_size,
                   error |-> "height and width must be > 0"]
             ELSE [ok |-> TRUE, ran |-> TRUE, size |-> new_size,
                   metadata |-> [resized |-> Some(TRUE), new_size |-> Some(new_size)]]
    ELSE [ok |-> TRUE, ran |-> FALSE, size |-> <<width, height>>,
          metadata |-> [resized |-> None, new_size |-> None]]

\* ImagePreprocessor.preprocess: raises on bytes that do not decode,
\* otherwise the pixel grid of the image under the three stage switches,
\* with its metadata record
preprocess(image_data, resize, enhance, threshold) ==
    IF Decodable(image_data)
    THEN LET img == IF enhance THEN _enhance_image(DecodedPixels) ELSE DecodedPixels
         IN  [ok |-> TRUE,
              image_array |-> IF threshold # None
                              THEN ApplyThreshold(img, TheValue(threshold))
                              ELSE img,
              metadata |-> [original_size |-> <<Width(DecodedPixels),
                                               Height(DecodedPixels)>>,
                            threshold |-> threshold,
                            final_size |-> <<Height(img), Width(img)>>]]
    ELSE [ok |-> FALSE, error |-> "cannot identify image file"]

\* ------------------------------------------------------------ vectorization
Rect(x, y, width, height, fill) ==
    [x |-> x, y |-> y, width |-> width, height |-> height, fill |-> fill]
Black == [name |-> "black"]
Rgb(gray_value) == [rgb |-> <<gray_value, gray_value, gray_value>>]

\* faulty variant: a pixel of intensity 128 counted as dark
RECURSIVE RunEnd_Inclusive(_, _, _)
RunEnd_Inclusive(image_array, y, x) ==
    IF x < Width(image_array) /\ Pixel(image_array, y, x) <= 128
    THEN RunEnd_Inclusive(image_array, y, x + 1)
    ELSE x
\* _generate_binary_paths, lines 136-139: where the run starting at x ends
RECURSIVE RunEnd(_, _, _)
RunEnd(image_array, y, x) ==
    IF x < Width(image_array) /\ Pixel(image_array, y, x) < 128
    THEN RunEnd(image_array, y, x + 1)
    ELSE x

\* _generate_binary_paths, lines 132-151: the rectangles of row y from
\* column x on (visited is only ever set behind x, so its test never fails)
RECURSIVE BinaryRow(_, _, _, _)
BinaryRow(image_array, y, x, simplify) ==
    IF x >= Width(image_array) THEN << >>
    ELSE IF Pixel(image_array, y, x) < 128
    THEN LET x_start == x
             x_end == RunEnd(image_array, y, x)
         IN  (IF simplify /\ x_end - x_start > 1
              THEN <<Rect(x_start, y, x_end - x_start, 1, Black)>>
              ELSE [i \in 1..(x_end - x_start) |->
                       Rect(x_start + i - 1, y, 1, 1, Black)])
             \o BinaryRow(image_array, y, x_end, simplify)
    ELSE BinaryRow(image_array, y, x + 1, simplify)

\* faulty variant: every run is emitted as one rectangle
_generate_binary_paths_AlwaysMerged(image_array, simplify) ==
    Concat([r \in 1..Height(image_array) |-> BinaryRow(image_array, r - 1, 0, TRUE)])
\* SVGVectorizer._generate_binary_paths
_generate_binary_paths(image_array, simplify) ==
    Concat([r \in 1..Height(image_array) |->
               BinaryRow(image_array, r - 1, 0, simplify)])

\* faulty variant: the sampled cell filled with the value of its neighbour
_generate_grayscale_paths_Shifted(image_array, simplify) ==
    LET step == IF simplify THEN 2 ELSE 1
        ys == Range(0, Height(image_array), step)
        xs == Range(0, Width(image_array), step)
    IN  Concat([i \in 1..Len(ys) |->
                   [k \in 1..Len(xs) |->
                       Rect(xs[k], ys[i], step, step,
                            Rgb(Pixel(image_array, ys[i],
                                      (xs[k] + 1) % Width(image_array))))]])
\* SVGVectorizer._generate_grayscale_paths
_generate_grayscale_paths(image_array, simplify) ==
    LET step == IF simplify THEN 2 ELSE 1
        ys == Range(0, Height(image_array), step)
        xs == Range(0, Width(image_array), step)
    IN  Concat([i \in 1..Len(ys) |->
                   [k \in 1..Len(xs) |->
                       Rect(xs[k], ys[i], step, step,
                            Rgb(Pixel(image_array, ys[i], xs[k])))]])

\* _generate_paths_for_chunk, lines 188-203: the rectangles of row y of the
\* chunk from column x on; a run is emitted only under "simplify and
\* x_end - x_start > 1", the if has no else
RECURSIVE ChunkRow(_, _, _, _, _)
ChunkRow(chunk, y, x, y_offset, simplify) ==
    IF x >= Width(chunk) THEN << >>
    ELSE IF Pixel(chunk, y, x) < 128
    THEN LET x_start == x
             x_end == RunEnd(chunk, y, x)
             actual_y == y_offset + y
         IN  (IF simplify /\ x_end - x_start > 1
              THEN <<Rect(x_start, actual_y, x_end - x_start, 1, Black)>>
              ELSE << >>)
             \o ChunkRow(chunk, y, x_end, y_offset, simplify)
    ELSE ChunkRow(chunk, y, x + 1, y_offset, simplify)

\* faulty variant: the rows of the chunk scanned from the bottom up
_generate_paths_for_chunk_BottomUp(chunk, y_offset, color_mode, simplify) ==
    Concat([r \in 1..Height(chunk) |->
               ChunkRow(chunk, Height(chunk) - r, 0, y_offset, simplify)])
\* faulty variant: the rows numbered from the top of the chunk
_generate_paths_for_chunk_NoOffset(chunk, y_offset, color_mode, simplify) ==
    Concat([r \in 1..Height(chunk) |-> ChunkRow(chunk, r - 1, 0, 0, simplify)])
\* SVGVectorizer._generate_paths_for_chunk (color_mode is not looked at)
_generate_paths_for_chunk(chunk, y_offset, color_mode, simplify) ==
    Concat([r \in 1..Height(chunk) |->
               ChunkRow(chunk, r - 1, 0, y_offset, simplify)])

\* vectorize_streaming, line 79
ChunkHeight(height) == IF height \div 10 > 1 THEN height \div 10 ELSE 1
Min(a, b) == IF a < b THEN a ELSE b

\* what the generator hands to its consumer, and where it gives up the loop
\* faulty variant: the two dimensions swapped in the root element
RootFragment_Transposed(width, height) ==
    [kind |-> "root", width |-> height, height |-> width,
     viewBox |-> <<0, 0, height, width>>]
\* lines 77 and 109: the opening root element
RootFragment(width, height) ==
    [kind |-> "root", width |-> width, height |-> height,
     viewBox |-> <<0, 0, width, height>>]
RectFragment(rect, y_start) == [kind |-> "rect", rect |-> rect, y_start |-> y_start]
CloseFragment == [kind |-> "close"]
YieldControl(y_start, y_end) ==
    [kind |-> "yield_control", y_start |-> y_start, y_end |-> y_end]

\* faulty variant: the band's fragments without the sleep after them
BandEvents_NoYield(paths, y_start, y_end) ==
    [i \in 1..Len(paths) |-> RectFragment(paths[i], y_start)]
\* vectorize_streaming, lines 92-95: one "yield path" per rectangle of the
\* band, then "await self._yield_control()"
BandEvents(paths, y_start, y_end) ==
    [i \in 1..Len(paths) |-> RectFragment(paths[i], y_start)]
        \o <<YieldControl(y_start, y_end)>>

\* an element of the list svg_parts that holds a rectangle
RectElement(rect) == [kind |-> "rect", rect |-> rect]

\* SVGVectorizer._create_svg_from_array: the list svg_parts the document is
\* joined from: the root element, the rectangles, the closing tag
_create_svg_from_array(image_array, width, height, color_mode, simplify) ==
    LET paths == IF color_mode = "binary"
                 THEN _generate_binary_paths(image_array, simplify)
                 ELSE _generate_grayscale_paths(image_array, simplify)
    IN  [svg_parts |-> <<RootFragment(width, height)>>
                           \o [i \in 1..Len(paths) |-> RectElement(paths[i])]
                           \o <<CloseFragment>>]

\* SVGVectorizer.vectorize: the document of the grid under (color_mode,
\* simplify), its root annotated with the duration the run measured;
\* mem_ok = FALSE is the run that raises while building the rectangle list
vectorize(image_array, color_mode, simplify, mem_ok, processing_time) ==
    IF mem_ok
    THEN [ok |-> TRUE,
          svg |-> [doc |-> _create_svg_from_array(image_array, Width(image_array),
                                                  Height(image_array), color_mode,
                                                  simplify),
                   processing_time |-> processing_time]]
    ELSE [ok |-> FALSE, error |-> "vectorization failed"]

\* str.encode('utf-8') and bytes.decode('utf-8')
Encode(svg) == [utf8 |-> svg]
CorruptBytes == [raw |-> "ff"]
CanDecode(bytes) == "utf8" \in DOMAIN bytes
Decode(bytes) == bytes.utf8

\* ------------------------------------------------------------------- state
VARIABLES
    phase,            \* "startup" until the startup event ran connect()
    enabled,          \* CacheManager.enabled
    redis_client,     \* CacheManager.redis_client is not None
    store,            \* the Redis keyspace: key -> [value, expires]
    now,              \* wall clock, seconds
    pending_tasks,    \* BackgroundTaskManager.pending_tasks
    completed_tasks,  \* BackgroundTaskManager.completed_tasks
    next_id,          \* the next fresh task id
    pc,               \* where each _process_task coroutine stands
    args,             \* (image_data, params) of each task
    reply,            \* the Redis reply a suspended task is resumed with
    locals,           \* svg_result / metadata held across the await of set
    calls,            \* history: the stages each task invoked, in order
    raised,           \* history: the exception raised inside each task
    observed,         \* history: the status views a poller could have seen
    aged,             \* history: tasks that finished at least a ttl ago
    lookup,           \* history: how each task's GET was served, and which
                      \*   tasks with the same request had stored by then
    recent_stores,    \* history: tasks whose SETEX was applied less than a ttl ago
    evicted,          \* history: ids removed by a sweep
    last_set,         \* history: the last set() a direct caller had applied, per key
    fn_args,          \* the arguments of a call made to a function on its own
    fn_result         \* what that call returned

cacheVars == <<phase, enabled, redis_client, store>>
jobVars == <<pending_tasks, completed_tasks, next_id, pc, args, reply, locals>>
histVars == <<calls, raised, observed, aged, lookup, recent_stores, evicted,
              last_set>>
pureVars == <<fn_args, fn_result>>
vars == <<cacheVars, now, jobVars, histVars, pureVars>>

\* ------------------------------------------------------------- cache layer
\* faulty variant: the enabled flag is not consulted
CacheUsable_ClientOnly == redis_client
\* "if not self.enabled or not self.redis_client: return" is not taken
CacheUsable == enabled /\ redis_client

\* a key Redis still holds: SETEX entries vanish when their ttl has elapsed
Live(k) == k \in DOMAIN store /\ now < store[k].expires

\* what the server answers to GET
RedisGet(k) == IF Live(k) THEN Some(store[k].value) ELSE None

\* CacheManager.set: "ttl = ttl or self.ttl"
EffectiveTtl(ttl) == IF ttl = None \/ ttl = Some(0) THEN cache_ttl ELSE TheValue(ttl)

\* faulty variant: the write is lost
RedisSetex_Dropped(k, ttl, value) == store
\* the keyspace after SETEX key ttl value
RedisSetex(k, ttl, value) ==
    [x \in DOMAIN store \cup {k} |->
        IF x = k THEN [value |-> value, expires |-> now + ttl] ELSE store[x]]

\* faulty variant: every answer is taken for a miss
CacheGetResult_AlwaysMiss(r) == None
\* faulty variant: the error reaches the caller as if it were data
CacheGetResult_ErrorAsData(r) == IF r.kind = "data" THEN r.data ELSE Some(CorruptBytes)
\* CacheManager.get once the server has answered: an error becomes a miss
CacheGetResult(r) == IF r.kind = "data" THEN r.data ELSE None

\* what a call of the cache layer gave its caller: a return value or an
\* exception, and whether the call reached the backing store
Returned(value, contacted) ==
    [raised |-> FALSE, value |-> value, contacted |-> contacted]

\* CacheManager.get as one call; ok = FALSE is a call the client library
\* raises in (connection lost, timeout, protocol error)
get(key, ok) ==
    IF ~CacheUsable THEN Returned(None, FALSE)
    ELSE Returned(CacheGetResult(IF ok THEN [kind |-> "data", data |-> RedisGet(key)]
                                       ELSE [kind |-> "error", data |-> None]),
                  TRUE)

\* CacheManager.exists
exists(key, ok) ==
    IF ~CacheUsable THEN Returned(FALSE, FALSE)
    ELSE IF ok THEN Returned(Live(key), TRUE)
    ELSE Returned(FALSE, TRUE)

\* CacheManager.set: what the caller gets, and the keyspace it leaves
set(key, value, ttl, ok) ==
    IF ~CacheUsable THEN [raised |-> FALSE, contacted |-> FALSE, store |-> store]
    ELSE IF ok
    THEN [raised |-> FALSE, contacted |-> TRUE,
          store |-> RedisSetex(key, EffectiveTtl(ttl), value)]
    ELSE [raised |-> FALSE, contacted |-> TRUE, store |-> store]

\* CacheManager.get_stats (keyspace_hits and keyspace_misses are counters of
\* the server, kept outside the program)
get_stats(ok) ==
    IF ~CacheUsable THEN Returned([enabled |-> FALSE], FALSE)
    ELSE IF ok
    THEN Returned([enabled |-> TRUE,
                   total_keys |-> Cardinality({k \in DOMAIN store : Live(k)})], TRUE)
    ELSE Returned([enabled |-> TRUE, error |-> "stats failed"], TRUE)

\* ---------------------------------------------------------- job records
\* faulty variant: a job registered half done
PendingRecord_HalfDone == [status |-> "pending", progress |-> 50]
\* submit_vectorization_task, lines 31-34
PendingRecord == [status |-> "pending", progress |-> 0]
\* _process_task, line 43
MarkProcessing(rec) == [rec EXCEPT !.status = "processing"]
\* _process_task, lines 44, 60, 69, 77
SetProgress(rec, p) == [rec EXCEPT !.progress = p]
\* faulty variant: the hit record flagged as computed
HitRecord_WrongFlag(cached_result) ==
    [status |-> "completed", result |-> Decode(cached_result), from_cache |-> FALSE]
\* _process_task, lines 51-55
HitRecord(cached_result) ==
    [status |-> "completed", result |-> Decode(cached_result), from_cache |-> TRUE]
\* faulty variant: the finished job written back as pending
MissRecord_StalePending(svg_result, metadata) ==
    [status |-> "pending", result |-> svg_result, metadata |-> metadata,
     from_cache |-> FALSE]
\* _process_task, lines 81-86
MissRecord(svg_result, metadata) ==
    [status |-> "completed", result |-> svg_result, metadata |-> metadata,
     from_cache |-> FALSE]
\* faulty variant: the failed record without the message
FailedRecord_NoMessage(e) == [status |-> "failed"]
\* _process_task, lines 95-98
FailedRecord(e) == [status |-> "failed", error |-> e]

\* dict assignment and del
Put(d, k, v) == [x \in DOMAIN d \cup {k} |-> IF x = k THEN v ELSE d[x]]
Del(d, k) == [x \in DOMAIN d \ {k} |-> d[x]]

\* faulty variant: only the pending dict is consulted
get_task_status_PendingOnly(task_id) ==
    IF task_id \in DOMAIN pending_tasks THEN Some(pending_tasks[task_id]) ELSE None
\* BackgroundTaskManager.get_task_status
get_task_status(task_id) ==
    IF task_id \in DOMAIN pending_tasks THEN Some(pending_tasks[task_id])
    ELSE IF task_id \in DOMAIN completed_tasks THEN Some(completed_tasks[task_id])
    ELSE None

\* what a status query shows of a record
View(rec) ==
    [status |-> rec.status,
     progress |-> IF "progress" \in DOMAIN rec THEN Some(rec.progress) ELSE None]

\* faulty variant: preprocessing is tried a second time when it raised
RunStages_PreprocessTwice(rec, image_data, params, mem_ok, processing_time) ==
    LET rec30 == SetProgress(rec, 30)
        pre == preprocess(image_data, Get(params, "resize", TRUE),
                          Get(params, "enhance", FALSE),
                          Get(params, "threshold", None))
    IN  IF ~pre.ok
        THEN [ok |-> FALSE, error |-> pre.error, rec |-> rec30,
              stages |-> <<"preprocess", "preprocess">>]
        ELSE LET vec == vectorize(pre.image_array,
                                  Get(params, "color_mode", "binary"),
                                  Get(params, "simplify", TRUE), mem_ok,
                                  processing_time)
             IN  IF ~vec.ok
                 THEN [ok |-> FALSE, error |-> vec.error,
                       rec |-> SetProgress(rec30, 60),
                       stages |-> <<"preprocess", "vectorize">>]
                 ELSE [ok |-> TRUE, svg_result |-> vec.svg,
                       metadata |-> pre.metadata,
                       rec |-> SetProgress(rec30, 90),
                       stages |-> <<"preprocess", "vectorize">>]
\* lines 60-77 of _process_task: the two CPU-bound stages between the
\* progress checkpoints, run without giving up the event loop
RunStages(rec, image_data, params, mem_ok, processing_time) ==
    LET rec30 == SetProgress(rec, 30)
        pre == preprocess(image_data, Get(params, "resize", TRUE),
                          Get(params, "enhance", FALSE),
                          Get(params, "threshold", None))
    IN  IF ~pre.ok
        THEN [ok |-> FALSE, error |-> pre.error, rec |-> rec30,
              stages |-> <<"preprocess">>]
        ELSE LET rec60 == SetProgress(rec30, 60)
                 vec == vectorize(pre.image_array,
                                  Get(params, "color_mode", "binary"),
                                  Get(params, "simplify", TRUE), mem_ok,
                                  processing_time)
             IN  IF ~vec.ok
                 THEN [ok |-> FALSE, error |-> vec.error, rec |-> rec60,
                       stages |-> <<"preprocess", "vectorize">>]
                 ELSE [ok |-> TRUE, svg_result |-> vec.svg,
                       metadata |-> pre.metadata,
                       rec |-> SetProgress(rec60, 90),
                       stages |-> <<"preprocess", "vectorize">>]

EmptyDict == [x \in {} |-> x]
NoLocals == [svg_result |-> None, metadata |-> None]

\* the keyspace the process finds at startup (Redis outlives the process and
\* is shared with other writers): nothing under the fingerprints of the
\* model but for one, which holds bytes that are not UTF-8 and has one ttl
\* left to live
InitStore ==
    [k \in {generate_cache_key("img", ParamsBinary)} |->
        [value |-> CorruptBytes, expires |-> cache_ttl]]

\* the service as the process starts it: the cache manager and the task
\* manager constructed, nothing connected, nothing submitted
ServiceInit ==
    /\ phase = "startup"
    /\ enabled \in BOOLEAN
    /\ redis_client = FALSE
    /\ store = InitStore
    /\ now = 0
    /\ pending_tasks = EmptyDict
    /\ completed_tasks = EmptyDict
    /\ next_id = 1
    /\ pc = [j \in TaskIds |-> "idle"]
    /\ args = [j \in TaskIds |-> None]
    /\ reply = [j \in TaskIds |-> None]
    /\ locals = [j \in TaskIds |-> NoLocals]
    /\ calls = [j \in TaskIds |-> << >>]
    /\ raised = [j \in TaskIds |-> None]
    /\ observed = [j \in TaskIds |-> << >>]
    /\ aged = {}
    /\ lookup = [j \in TaskIds |-> None]
    /\ recent_stores = {}
    /\ evicted = {}
    /\ last_set = EmptyDict

Init ==
    /\ ServiceInit
    /\ fn_args = None
    /\ fn_result = None

\* CacheManager.connect, run once by the startup event
connect(ping_ok) ==
    /\ phase = "startup"
    /\ phase' = "serving"
    /\ IF ~enabled
       THEN UNCHANGED <<pureVars, enabled, redis_client>>
       ELSE /\ redis_client' = TRUE
            /\ enabled' = ping_ok
    /\ UNCHANGED <<pureVars, store, now, jobVars, histVars>>

\* history bookkeeping shared by the task steps
Seen(j, rec) ==
    IF Len(observed[j]) > 0 /\ observed[j][Len(observed[j])] = View(rec)
    THEN observed[j]
    ELSE Append(observed[j], View(rec))

\* BackgroundTaskManager.submit_vectorization_task
submit_vectorization_task(image_data, params) ==
    /\ phase = "serving"
    /\ next_id <= MaxTasks
    /\ LET task_id == next_id
       IN  /\ pending_tasks' = Put(pending_tasks, task_id, PendingRecord)
           /\ pc' = [pc EXCEPT ![task_id] = "scheduled"]
           /\ args' = [args EXCEPT ![task_id] =
                          Some([image_data |-> image_data, params |-> params])]
           /\ observed' = [observed EXCEPT ![task_id] = Seen(task_id, PendingRecord)]
    /\ next_id' = next_id + 1
    /\ UNCHANGED <<pureVars, cacheVars, now, completed_tasks, reply, locals, calls,
                   raised,
                   aged, lookup, recent_stores, evicted, last_set>>

\* the task leaves pending_tasks with its final record in completed_tasks
Finish(j, rec, stages, err) ==
    /\ completed_tasks' = Put(completed_tasks, j, rec)
    /\ pending_tasks' = Del(pending_tasks, j)
    /\ pc' = [pc EXCEPT ![j] = "done"]
    /\ calls' = [calls EXCEPT ![j] = calls[j] \o stages]
    /\ raised' = [raised EXCEPT ![j] = err]
    /\ observed' = [observed EXCEPT ![j] = Seen(j, rec)]
    /\ locals' = [locals EXCEPT ![j] = NoLocals]
    /\ reply' = [reply EXCEPT ![j] = None]

\* the task suspends inside a Redis call
Suspend(j, at, rec, stages, loc) ==
    /\ pending_tasks' = Put(pending_tasks, j, rec)
    /\ pc' = [pc EXCEPT ![j] = at]
    /\ calls' = [calls EXCEPT ![j] = calls[j] \o stages]
    /\ observed' = [observed EXCEPT ![j] = Seen(j, rec)]
    /\ locals' = [locals EXCEPT ![j] = loc]
    /\ reply' = [reply EXCEPT ![j] = None]
    /\ UNCHANGED <<pureVars, completed_tasks, raised>>

\* faulty variant: the store is attempted whether or not the stages succeeded
MissPath_StoreOnFailure(j, rec, prior, mem_ok, processing_time) ==
    LET a == TheValue(args[j])
        out == RunStages(rec, a.image_data, a.params, mem_ok, processing_time)
    IN  IF CacheUsable
        THEN Suspend(j, "await_set", out.rec,
                     prior \o out.stages \o <<"cache_set">>,
                     [svg_result |-> Some(IF out.ok THEN out.svg_result
                                                   ELSE [doc |-> out.error,
                                                         processing_time |-> 0]),
                      metadata |-> Some(None)])
        ELSE IF ~out.ok
        THEN Finish(j, FailedRecord(out.error), prior \o out.stages, Some(out.error))
        ELSE Finish(j, MissRecord(out.svg_result, out.metadata),
                    prior \o out.stages \o <<"cache_set">>, None)
\* lines 60-100 once the lookup found nothing: stages, then the store
MissPath(j, rec, prior, mem_ok, processing_time) ==
    LET a == TheValue(args[j])
        out == RunStages(rec, a.image_data, a.params, mem_ok, processing_time)
    IN  IF ~out.ok
        THEN Finish(j, FailedRecord(out.error), prior \o out.stages, Some(out.error))
        ELSE IF CacheUsable
        THEN Suspend(j, "await_set", out.rec,
                     prior \o out.stages \o <<"cache_set">>,
                     [svg_result |-> Some(out.svg_result),
                      metadata |-> Some(out.metadata)])
        ELSE Finish(j, MissRecord(out.svg_result, out.metadata),
                    prior \o out.stages \o <<"cache_set">>, None)

\* _process_task from its first line to its first real suspension
process_task_start(j) ==
    /\ pc[j] = "scheduled"
    /\ LET rec == SetProgress(MarkProcessing(pending_tasks[j]), 10)
       IN  IF CacheUsable
           THEN Suspend(j, "await_get", rec, <<"cache_get">>, NoLocals)
           ELSE \E mem_ok \in BOOLEAN, processing_time \in ProcTimes :
                    MissPath(j, rec, <<"cache_get">>, mem_ok, processing_time)
    /\ UNCHANGED <<pureVars, cacheVars, now, next_id, args, aged, lookup, recent_stores,
                   evicted, last_set>>

\* the Redis server answers the GET of a suspended task (or the call errors)
redis_get(j, ok) ==
    /\ pc[j] = "await_get"
    /\ LET a == TheValue(args[j])
           k == generate_cache_key(a.image_data, a.params)
       IN  /\ reply' = [reply EXCEPT ![j] =
                           Some(IF ok THEN [kind |-> "data", data |-> RedisGet(k)]
                                      ELSE [kind |-> "error", data |-> None])]
           /\ lookup' = [lookup EXCEPT ![j] =
                           Some([ok |-> ok,
                                 fresh |-> {i \in recent_stores :
                                               args[i] = args[j]}])]
    /\ pc' = [pc EXCEPT ![j] = "get_reply"]
    /\ UNCHANGED <<pureVars, cacheVars, now, pending_tasks, completed_tasks, next_id,
                   args,
                   locals, calls, raised, observed,
                   aged, recent_stores, evicted, last_set>>

\* _process_task resumed after "await cache_manager.get(cache_key)"
process_task_after_get(j) ==
    /\ pc[j] = "get_reply"
    /\ LET cached_result == CacheGetResult(TheValue(reply[j]))
           rec == pending_tasks[j]
       IN  IF cached_result # None
           THEN IF CanDecode(TheValue(cached_result))
                THEN Finish(j, HitRecord(TheValue(cached_result)), << >>, None)
                ELSE Finish(j, FailedRecord("invalid start byte"), << >>,
                            Some("invalid start byte"))
           ELSE \E mem_ok \in BOOLEAN, processing_time \in ProcTimes :
                    MissPath(j, rec, << >>, mem_ok, processing_time)
    /\ UNCHANGED <<pureVars, cacheVars, now, next_id, args, aged, lookup, recent_stores,
                   evicted, last_set>>

\* the Redis server applies the SETEX of a suspended task (or the call errors)
redis_setex(j, ok) ==
    /\ pc[j] = "await_set"
    /\ LET a == TheValue(args[j])
           k == generate_cache_key(a.image_data, a.params)
       IN  store' = IF ok
                    THEN RedisSetex(k, EffectiveTtl(None),
                                    Encode(TheValue(locals[j].svg_result)))
                    ELSE store
    /\ recent_stores' = IF ok THEN recent_stores \cup {j} ELSE recent_stores
    /\ reply' = [reply EXCEPT ![j] =
                    Some([kind |-> IF ok THEN "ok" ELSE "error", data |-> None])]
    /\ pc' = [pc EXCEPT ![j] = "set_reply"]
    /\ UNCHANGED <<pureVars, phase, enabled, redis_client, now, pending_tasks,
                   completed_tasks, next_id, args, locals, calls, raised, observed,
                   aged, lookup, evicted, last_set>>

\* _process_task resumed after "await cache_manager.set(...)": lines 81-91
process_task_after_set(j) ==
    /\ pc[j] = "set_reply"
    /\ Finish(j, MissRecord(TheValue(locals[j].svg_result),
                            TheValue(locals[j].metadata)), << >>, None)
    /\ UNCHANGED <<pureVars, cacheVars, now, next_id, args, aged, lookup, recent_stores,
                   evicted, last_set>>

\* GET /tasks/{task_id}, for any id a client may ask about: the handler
\* answers from the two dicts (a record, or 404 for None) and writes nothing
query_task_status ==
    /\ phase = "serving"
    /\ UNCHANGED vars

\* cleanup_completed_tasks, lines 115-120: the ids the sweep collects
ToRemove(max_age_seconds) ==
    {task_id \in DOMAIN completed_tasks :
        /\ "completed_at" \in DOMAIN completed_tasks[task_id]
        /\ now - completed_tasks[task_id].completed_at > max_age_seconds}

\* completed_tasks once the sweep deleted what it collected, lines 122-123
AfterCleanup(max_age_seconds) ==
    [task_id \in DOMAIN completed_tasks \ ToRemove(max_age_seconds) |->
        completed_tasks[task_id]]

\* BackgroundTaskManager.cleanup_completed_tasks
cleanup_completed_tasks(max_age_seconds) ==
    /\ phase = "serving"
    /\ completed_tasks' = AfterCleanup(max_age_seconds)
    /\ evicted' = evicted \cup ToRemove(max_age_seconds)
    /\ UNCHANGED <<pureVars, cacheVars, now, pending_tasks, next_id, pc, args, reply,
                   locals,
                   calls, raised, observed, aged, lookup, recent_stores, last_set>>

\* time passes, one cache ttl at a time: every SETEX applied before the
\* step is a full ttl old after it, and so is every finished task
Tick ==
    /\ now < MaxTicks * cache_ttl
    /\ now' = now + cache_ttl
    /\ recent_stores' = {}
    /\ aged' = {j \in TaskIds : pc[j] = "done"}
    /\ UNCHANGED <<pureVars, cacheVars, jobVars, calls, raised, observed, lookup, evicted,
                   last_set>>

Next ==
    \/ \E ping_ok \in BOOLEAN : connect(ping_ok)
    \/ \E r \in Requests : submit_vectorization_task(r[1], r[2])
    \/ \E j \in TaskIds : process_task_start(j)
    \/ \E j \in TaskIds, ok \in BOOLEAN : redis_get(j, ok)
    \/ \E j \in TaskIds : process_task_after_get(j)
    \/ \E j \in TaskIds, ok \in BOOLEAN : redis_setex(j, ok)
    \/ \E j \in TaskIds : process_task_after_set(j)
    \/ query_task_status
    \/ \E max_age_seconds \in MaxAges : cleanup_completed_tasks(max_age_seconds)
    \/ Tick

Spec == Init /\ [][Next]_vars

\* one step of task j's coroutine or of the Redis call it is suspended in
JobStep(j) ==
    \/ process_task_start(j)
    \/ \E ok \in BOOLEAN : redis_get(j, ok)
    \/ process_task_after_get(j)
    \/ \E ok \in BOOLEAN : redis_setex(j, ok)
    \/ process_task_after_set(j)

\* the event loop resumes every ready task, and every Redis call returns
\* (with a reply or with an error)
FairSpec == Spec /\ \A j \in TaskIds : WF_vars(JobStep(j))

\* ------------------------------------------- the cache layer called directly
\* (the synchronous endpoints, the health and stats endpoints and the tests
\* call the cache without a job in between)
call_get(key, ok) ==
    /\ phase = "serving"
    /\ get(key, ok).raised = FALSE
    /\ UNCHANGED vars

call_exists(key, ok) ==
    /\ phase = "serving"
    /\ exists(key, ok).raised = FALSE
    /\ UNCHANGED vars

call_get_stats(ok) ==
    /\ phase = "serving"
    /\ get_stats(ok).raised = FALSE
    /\ UNCHANGED vars

call_set(key, value, ttl, ok) ==
    /\ phase = "serving"
    /\ store' = set(key, value, ttl, ok).store
    /\ last_set' = IF CacheUsable /\ ok
                   THEN Put(last_set, key, [value |-> value, ttl |-> ttl, at |-> now])
                   ELSE last_set
    /\ UNCHANGED <<pureVars, phase, enabled, redis_client, now, jobVars, calls, raised,
                   observed, aged, lookup, recent_stores, evicted>>

\* one second passes
Second ==
    /\ now % cache_ttl < MaxSeconds
    /\ now' = now + 1
    /\ UNCHANGED <<pureVars, cacheVars, jobVars, histVars>>

CacheNext ==
    \/ \E ping_ok \in BOOLEAN : connect(ping_ok)
    \/ \E key \in CacheKeys, ok \in BOOLEAN : call_get(key, ok)
    \/ \E key \in CacheKeys, ok \in BOOLEAN : call_exists(key, ok)
    \/ \E ok \in BOOLEAN : call_get_stats(ok)
    \/ \E key \in CacheKeys, value \in Blobs, ttl \in Ttls, ok \in BOOLEAN :
           call_set(key, value, ttl, ok)
    \/ Second
    \/ Tick

CacheSpec == Init /\ [][CacheNext]_vars

\* ------------------------------------------------ generate_cache_key alone
\* parameter dicts over three of the parameter names, in every insertion
\* order
ParamNames == {"color_mode", "resize", "simplify"}
ParamValuations == [color_mode : {"binary", "grayscale"}, resize : BOOLEAN,
                    simplify : BOOLEAN]
Orders(S) ==
    {o \in [1..Cardinality(S) -> S] :
        \A a, b \in 1..Cardinality(S) : a # b => o[a] # o[b]}
DictOf(order, valuation) ==
    [i \in 1..Len(order) |-> <<order[i], valuation[order[i]]>>]

\* one parameter set written down in two insertion orders
KeyInit ==
    /\ ServiceInit
    /\ \E image_data \in Images, S \in SUBSET ParamNames, v \in ParamValuations :
           \E o1, o2 \in Orders(S) :
               fn_args = Some([image_data |-> image_data,
                               params |-> DictOf(o1, v),
                               reordered |-> DictOf(o2, v)])
    /\ fn_result = None

\* the key is computed for both
call_generate_cache_key ==
    /\ fn_result = None
    /\ LET a == TheValue(fn_args)
       IN  fn_result' = Some([key |-> generate_cache_key(a.image_data, a.params),
                              again |-> generate_cache_key(a.image_data, a.params),
                              reordered_key |->
                                  generate_cache_key(a.image_data, a.reordered)])
    /\ UNCHANGED <<cacheVars, now, jobVars, histVars, fn_args>>

KeyNext == call_generate_cache_key

KeySpec == KeyInit /\ [][KeyNext]_vars

\* --------------------------------------- the resize stage of preprocess
\* image sizes on either side of max_image_dimension, some with a side that
\* scales to a whole number and some with a side that scales to less than 1
ImageSides == {1, 100, 4095, 4096, 4097, 4237, 5000, 8192}

ResizeInit ==
    /\ ServiceInit
    /\ \E width \in ImageSides, height \in ImageSides, resize \in BOOLEAN :
           fn_args = Some([size |-> <<width, height>>, resize |-> resize])
    /\ fn_result = None

call_resize ==
    /\ fn_result = None
    /\ \E rounds_down \in BOOLEAN \X BOOLEAN :
           LET a == TheValue(fn_args)
           IN  fn_result' = Some(ResizeStage(a.size[1], a.size[2], a.resize,
                                             rounds_down))
    /\ UNCHANGED <<cacheVars, now, jobVars, histVars, fn_args>>

ResizeNext == call_resize

ResizeSpec == ResizeInit /\ [][ResizeNext]_vars

\* ------------------------------------------------- SVGVectorizer.vectorize
\* every grid up to MaxHeight x MaxWidth over the two intensities on either
\* side of the binary threshold
Intensities == {127, 128}
Grids ==
    UNION {[1..h -> [1..w -> Intensities]] : h \in 1..MaxHeight, w \in 1..MaxWidth}
ColorModes == {"binary", "grayscale"}

VecInit ==
    /\ ServiceInit
    /\ enabled
    /\ \E image_array \in Grids, color_mode \in ColorModes, simplify \in BOOLEAN :
           fn_args = Some([image_array |-> image_array, color_mode |-> color_mode,
                           simplify |-> simplify])
    /\ fn_result = None

call_vectorize ==
    /\ fn_result = None
    /\ \E processing_time \in ProcTimes :
           LET a == TheValue(fn_args)
           IN  fn_result' = Some(vectorize(a.image_array, a.color_mode, a.simplify,
                                           TRUE, processing_time).svg)
    /\ UNCHANGED <<cacheVars, now, jobVars, histVars, fn_args>>

VecNext == call_vectorize

VecSpec == VecInit /\ [][VecNext]_vars

\* --------------------------------------- SVGVectorizer.vectorize_streaming
\* grids tall enough for bands of more than one row: the rows repeat one row
\* of width MaxWidth, or alternate between it and its mirror image
StreamHeights == {1, 10, 11, 20, 21}
StreamRows == [1..MaxWidth -> Intensities]
Mirror(row) == [i \in 1..Len(row) |-> row[Len(row) + 1 - i]]
RowPatterns == {<<r>> : r \in StreamRows} \cup {<<r, Mirror(r)>> : r \in StreamRows}
Tiled(pattern, height) ==
    [r \in 1..height |-> pattern[((r - 1) % Len(pattern)) + 1]]
StreamGrids ==
    {Tiled(pattern, height) : pattern \in RowPatterns, height \in StreamHeights}

\* the generator object, not yet started
StreamInit ==
    /\ ServiceInit
    /\ enabled
    /\ \E image_array \in StreamGrids, color_mode \in ColorModes, simplify \in BOOLEAN :
           fn_args = Some([streamed |-> image_array, color_mode |-> color_mode,
                           simplify |-> simplify])
    /\ fn_result = Some([at |-> "start", y_start |-> 0, events |-> << >>,
                         other_ran |-> FALSE])

\* lines 74-79: the root element is yielded
stream_open ==
    /\ TheValue(fn_result).at = "start"
    /\ LET a == TheValue(fn_args).streamed
       IN  fn_result' = Some([TheValue(fn_result) EXCEPT
                                 !.at = "band",
                                 !.events = <<RootFragment(Width(a), Height(a))>>])
    /\ UNCHANGED <<cacheVars, now, jobVars, histVars, fn_args>>

\* lines 81-95: one band is cut out, encoded and yielded fragment by
\* fragment; the generator then sleeps for zero seconds
stream_band ==
    /\ TheValue(fn_result).at = "band"
    /\ LET a == TheValue(fn_args)
           g == TheValue(fn_result)
           height == Height(a.streamed)
           y_start == g.y_start
           y_end == Min(y_start + ChunkHeight(height), height)
           chunk == SubSeq(a.streamed, y_start + 1, y_end)
           paths == _generate_paths_for_chunk(chunk, y_start, a.color_mode, a.simplify)
       IN  fn_result' = Some([g EXCEPT
                                 !.at = "sleeping",
                                 !.events = g.events
                                               \o BandEvents(paths, y_start, y_end)])
    /\ UNCHANGED <<cacheVars, now, jobVars, histVars, fn_args>>

\* the event loop runs another ready task while the generator sleeps
other_task ==
    /\ TheValue(fn_result).at = "sleeping"
    /\ ~TheValue(fn_result).other_ran
    /\ fn_result' = Some([TheValue(fn_result) EXCEPT !.other_ran = TRUE])
    /\ UNCHANGED <<cacheVars, now, jobVars, histVars, fn_args>>

\* asyncio.sleep(0) returns: the for loop moves to the next band or ends
stream_wake ==
    /\ TheValue(fn_result).at = "sleeping"
    /\ LET g == TheValue(fn_result)
           height == Height(TheValue(fn_args).streamed)
           next_start == g.y_start + ChunkHeight(height)
       IN  fn_result' = Some([g EXCEPT
                                 !.at = IF next_start < height THEN "band" ELSE "closing",
                                 !.y_start = next_start,
                                 !.other_ran = FALSE])
    /\ UNCHANGED <<cacheVars, now, jobVars, histVars, fn_args>>

\* line 97
stream_close ==
    /\ TheValue(fn_result).at = "closing"
    /\ fn_result' = Some([TheValue(fn_result) EXCEPT
                              !.at = "done",
                              !.events = @ \o <<CloseFragment>>])
    /\ UNCHANGED <<cacheVars, now, jobVars, histVars, fn_args>>

StreamStep == stream_open \/ stream_band \/ stream_wake \/ stream_close

StreamNext ==
    \/ stream_open
    \/ stream_band
    \/ other_task
    \/ stream_wake
    \/ stream_close

\* the consumer keeps iterating and the event loop wakes the sleeper
StreamSpec == StreamInit /\ [][StreamNext]_vars /\ WF_vars(StreamStep)

\* ------------------------------------------------- both encoders side by side
\* a call of vectorize on a small grid, or a generator of
\* vectorize_streaming on a tall one
DocInit == VecInit \/ StreamInit

\* fn_result holds a generator (and not the document of a finished call)
IsGenerator == fn_result # None /\ "at" \in DOMAIN TheValue(fn_result)

DocNext ==
    \/ call_vectorize
    \/ IsGenerator /\ stream_open
    \/ IsGenerator /\ stream_band
    \/ IsGenerator /\ other_task
    \/ IsGenerator /\ stream_wake
    \/ IsGenerator /\ stream_close

DocSpec == DocInit /\ [][DocNext]_vars

\* ------------------------------------------------------------------ claims
Submitted(task_id) == task_id \in TaskIds /\ task_id < next_id
StatusOf(task_id) == TheValue(get_task_status(task_id)).status
IsTerminal(task_id) ==
    /\ get_task_status(task_id) # None
    /\ StatusOf(task_id) \in {"completed", "failed"}
HasProgress(task_id) ==
    /\ get_task_status(task_id) # None
    /\ "progress" \in DOMAIN TheValue(get_task_status(task_id))
ProgressOf(task_id) == TheValue(get_task_status(task_id)).progress
CompletedMiss(j) ==
    /\ j \in DOMAIN completed_tasks
    /\ completed_tasks[j].status = "completed"
    /\ completed_tasks[j].from_cache = FALSE
CompletedHit(j) ==
    /\ j \in DOMAIN completed_tasks
    /\ completed_tasks[j].status = "completed"
    /\ completed_tasks[j].from_cache = TRUE
ViewOf(status, progress) == [status |-> status, progress |-> Some(progress)]

\* C1: the progress a status query returns for a job never decreases from
\* one query to a later one, and under fair scheduling every submitted job
\* ends completed or failed.
ProgressNeverDecreases ==
    [][\A j \in TaskIds :
          (HasProgress(j) /\ HasProgress(j)') => ProgressOf(j)' >= ProgressOf(j)]_vars
EveryJobEnds == \A j \in TaskIds : Submitted(j) ~> IsTerminal(j)
C1_JobLifecycle == ProgressNeverDecreases /\ EveryJobEnds
C1_Witness ==
    \E j \in TaskIds :
        /\ IsTerminal(j)
        /\ Len(observed[j]) >= 4
        /\ observed[j][3] = ViewOf("processing", 90)

\* C2: a job's status only moves forward along pending -> processing ->
\* completed | failed, and a completed or failed record stays exactly as it
\* is unless a sweep removes it.
StatusRank(status) ==
    CASE status = "pending" -> 1
      [] status = "processing" -> 2
      [] status \in {"completed", "failed"} -> 3
C2_StatusOnlyForward ==
    [][\A j \in TaskIds :
          get_task_status(j) # None =>
              /\ get_task_status(j)' # None =>
                     StatusRank(StatusOf(j)') >= StatusRank(StatusOf(j))
              /\ IsTerminal(j) =>
                     \/ get_task_status(j)' = get_task_status(j)
                     \/ get_task_status(j)' = None /\ j \in evicted']_vars
C2_Witness ==
    \E i, j \in TaskIds :
        /\ IsTerminal(i) /\ StatusOf(i) = "completed"
        /\ IsTerminal(j) /\ StatusOf(j) = "failed"

\* C3 (as claimed): every record in state completed carries progress = 100,
\* a result and a from_cache flag, on the hit path and on the miss path.
C3_CompletedCarriesProgress100 ==
    \A j \in DOMAIN completed_tasks :
        completed_tasks[j].status = "completed" =>
            /\ "result" \in DOMAIN completed_tasks[j]
            /\ "from_cache" \in DOMAIN completed_tasks[j]
            /\ "progress" \in DOMAIN completed_tasks[j]
            /\ completed_tasks[j].progress = 100

\* C4: a job completed with from_cache = TRUE invoked neither preprocessing
\* nor vectorization nor a cache store; a job completed with from_cache =
\* FALSE ran preprocessing once and then vectorization once, in that order.
IsStage(c) == c \in {"preprocess", "vectorize"}
C4_CacheHitSkipsStages ==
    \A j \in TaskIds :
        /\ CompletedHit(j) =>
               \A i \in 1..Len(calls[j]) :
                   calls[j][i] \notin {"preprocess", "vectorize", "cache_set"}
        /\ CompletedMiss(j) =>
               SelectSeq(calls[j], IsStage) = <<"preprocess", "vectorize">>
C4_Witness ==
    \E i, j \in TaskIds : CompletedHit(i) /\ CompletedMiss(j)

\* C5: when decoding the cached value, preprocessing or vectorization raises
\* in a job, the job's coroutine ends, the job is out of the pending set and
\* a status query returns the failed record holding the error message.
C5_FailureIsRecorded ==
    \A j \in TaskIds :
        raised[j] # None =>
            /\ pc[j] = "done"
            /\ j \notin DOMAIN pending_tasks
            /\ get_task_status(j) # None
            /\ StatusOf(j) = "failed"
            /\ "error" \in DOMAIN TheValue(get_task_status(j))
            /\ TheValue(get_task_status(j)).error = TheValue(raised[j])
C5_Witness ==
    \E i, j \in TaskIds :
        /\ raised[i] = Some("invalid start byte")
        /\ raised[j] \in {Some("cannot identify image file"),
                          Some("vectorization failed")}
        /\ StatusOf(i) = "failed" /\ StatusOf(j) = "failed"

\* C6 (as claimed): a job with a valid image that misses the cache shows a
\* poller pending(0), processing(10), processing(30), processing(60),
\* processing(90), completed(100), in that order.
C6_ObservedCheckpoints ==
    \A j \in TaskIds :
        CompletedMiss(j) =>
            observed[j] = <<ViewOf("pending", 0), ViewOf("processing", 10),
                            ViewOf("processing", 30), ViewOf("processing", 60),
                            ViewOf("processing", 90), ViewOf("completed", 100)>>

\* C7 (as claimed): between the progress 30 checkpoint and the progress 90
\* checkpoint a job suspends at least once, so that a concurrent status
\* query can see its record while the two stages run.
C7_StagesCanBeObserved ==
    \A j \in TaskIds :
        CompletedMiss(j) =>
            \E i \in 1..Len(observed[j]) :
                observed[j][i] \in {ViewOf("processing", 30), ViewOf("processing", 60)}

\* C8 (as claimed): a sweep with max_age_seconds removes every finished
\* record whose completion lies more than max_age_seconds in the past.
\* (A task in aged finished at least cache_ttl seconds ago.)
C8_SweepRemovesOldRecords ==
    \A max_age_seconds \in MaxAges :
        \A j \in aged \cap DOMAIN completed_tasks :
            cache_ttl > max_age_seconds =>
                j \notin DOMAIN AfterCleanup(max_age_seconds)

\* C9: a status query returns a record for every submitted id no sweep has
\* removed, the pending record as long as there is one, and None for an id
\* never submitted; no id is in both dicts.
C9_StatusLookup ==
    /\ DOMAIN pending_tasks \cap DOMAIN completed_tasks = {}
    /\ \A task_id \in QueryIds :
           /\ (Submitted(task_id) /\ task_id \notin evicted) =>
                  get_task_status(task_id) # None
           /\ task_id \in DOMAIN pending_tasks =>
                  get_task_status(task_id) = Some(pending_tasks[task_id])
           /\ ~Submitted(task_id) => get_task_status(task_id) = None
C9_Witness ==
    \E i, j \in TaskIds :
        /\ i \in DOMAIN pending_tasks /\ pending_tasks[i].status = "processing"
        /\ j \in DOMAIN completed_tasks
        /\ ~Submitted(UnknownId)

\* C10 (as claimed): of two jobs submitted with the same image bytes and the
\* same parameters, the second one's result carries from_cache = TRUE.
SameRequest(i, j) == args[i] # None /\ args[i] = args[j]
C10_SecondJobFromCache ==
    \A i, j \in TaskIds :
        (i < j /\ SameRequest(i, j) /\ j \in DOMAIN completed_tasks
           /\ completed_tasks[j].status = "completed")
        => completed_tasks[j].from_cache = TRUE
\* C10 (amended): the second job is served from the cache when its GET is
\* answered without error after the first job's SETEX was applied and less
\* than a ttl has passed in between.
C10_SecondJobFromCacheIfStored ==
    \A i, j \in TaskIds :
        (/\ i # j /\ SameRequest(i, j)
         /\ pc[j] = "done"
         /\ lookup[j] # None
         /\ TheValue(lookup[j]).ok
         /\ i \in TheValue(lookup[j]).fresh)
        => CompletedHit(j)
C10_Witness ==
    \E i, j \in TaskIds :
        /\ i # j /\ SameRequest(i, j)
        /\ CompletedMiss(i)
        /\ lookup[j] # None /\ i \in TheValue(lookup[j]).fresh
        /\ CompletedHit(j)

\* C11: nothing serialises two jobs with the same fingerprint: when both had
\* their SETEX applied (within the same ttl), both ran preprocessing and
\* vectorization, both completed with from_cache = FALSE, and the key holds
\* the value one of them stored.
KeyOf(j) == generate_cache_key(TheValue(args[j]).image_data, TheValue(args[j]).params)
StoredValue(j) ==
    IF pc[j] = "done" THEN completed_tasks[j].result
    ELSE TheValue(locals[j].svg_result)
C11_NoSingleFlight ==
    \A i, j \in TaskIds :
        (/\ i # j /\ SameRequest(i, j)
         /\ pc[i] = "done" /\ pc[j] = "done"
         /\ i \in recent_stores /\ j \in recent_stores)
        => /\ CompletedMiss(i) /\ CompletedMiss(j)
           /\ SelectSeq(calls[i], IsStage) = <<"preprocess", "vectorize">>
           /\ SelectSeq(calls[j], IsStage) = <<"preprocess", "vectorize">>
           /\ Live(KeyOf(i))
           /\ store[KeyOf(i)].value \in
                  {Encode(StoredValue(h)) :
                      h \in {h \in recent_stores : SameRequest(h, i)}}
\* both lookups were answered "absent" before either store, and the two jobs
\* stored different documents
C11_Witness ==
    \E i, j \in TaskIds :
        /\ i # j /\ SameRequest(i, j)
        /\ CompletedMiss(i) /\ CompletedMiss(j)
        /\ lookup[i] = Some([ok |-> TRUE, fresh |-> {}])
        /\ lookup[j] = Some([ok |-> TRUE, fresh |-> {}])
        /\ {i, j} \subseteq recent_stores
        /\ completed_tasks[i].result # completed_tasks[j].result
        /\ store[KeyOf(i)].value = Encode(completed_tasks[i].result)

\* C12: a backing-store error in get, set or exists never reaches the caller:
\* get returns absent, exists returns FALSE, set leaves the keyspace as it
\* was; a job whose lookup errored goes down the miss path (it completes
\* with from_cache = FALSE or fails in a stage, never on the cache), and a
\* job that got as far as the store completes with from_cache = FALSE and
\* its document whether or not the store was applied.
Called(j, c) == \E i \in 1..Len(calls[j]) : calls[j][i] = c
StageErrors == {"cannot identify image file", "vectorization failed"}
C12_CacheErrorsStayInside ==
    /\ \A key \in CacheKeys :
           /\ get(key, FALSE).raised = FALSE /\ get(key, FALSE).value = None
           /\ exists(key, FALSE).raised = FALSE /\ exists(key, FALSE).value = FALSE
           /\ \A value \in Blobs, ttl \in Ttls :
                  /\ set(key, value, ttl, FALSE).raised = FALSE
                  /\ set(key, value, ttl, FALSE).store = store
    /\ \A j \in TaskIds :
           /\ (pc[j] = "get_reply" /\ TheValue(reply[j]).kind = "error")
                  => CacheGetResult(TheValue(reply[j])) = None
           /\ (pc[j] = "done" /\ lookup[j] # None /\ ~TheValue(lookup[j]).ok)
                  => \/ CompletedMiss(j)
                     \/ /\ StatusOf(j) = "failed"
                        /\ TheValue(get_task_status(j)).error \in StageErrors
           /\ (pc[j] = "done" /\ Called(j, "cache_set"))
                  => /\ CompletedMiss(j)
                     /\ "doc" \in DOMAIN completed_tasks[j].result
\* a job whose lookup errored and whose store was not applied, completed
C12_Witness ==
    \E j \in TaskIds :
        /\ CacheUsable /\ now = 0
        /\ lookup[j] # None /\ ~TheValue(lookup[j]).ok
        /\ Called(j, "cache_set") /\ j \notin recent_stores
        /\ CompletedMiss(j)
        /\ KeyOf(j) \notin DOMAIN store

\* C13: once connect has failed to reach the backing store (the client
\* object exists, enabled is FALSE), the cache stays disabled: enabled never
\* becomes TRUE again, no get, set, exists or get_stats call reaches the
\* backing store, get returns absent, exists FALSE, get_stats enabled =
\* FALSE, and set leaves the keyspace untouched.
ConnectFailed == phase = "serving" /\ redis_client /\ ~enabled
DisabledCalls ==
    /\ \A ok \in BOOLEAN : get_stats(ok) = Returned([enabled |-> FALSE], FALSE)
    /\ \A key \in CacheKeys, ok \in BOOLEAN :
           /\ get(key, ok) = Returned(None, FALSE)
           /\ exists(key, ok) = Returned(FALSE, FALSE)
           /\ \A value \in Blobs, ttl \in Ttls :
                  /\ ~set(key, value, ttl, ok).contacted
                  /\ set(key, value, ttl, ok).store = store
C13_DisabledForLife ==
    /\ [](ConnectFailed => DisabledCalls)
    /\ [][ConnectFailed =>
              (ConnectFailed' /\ store' = store /\ last_set' = last_set)]_vars
\* the cache still disabled a ttl after the failed connect
C13_Witness == ConnectFailed /\ now > cache_ttl /\ store = InitStore

\* C14: for fixed image bytes and a fixed parameter set, generate_cache_key
\* returns the same key on every call and for every order the parameters
\* are given in, and the key starts with "svg:".
C14_KeyIgnoresParamOrder ==
    fn_result # None =>
        /\ TheValue(fn_result).key = TheValue(fn_result).again
        /\ TheValue(fn_result).key = TheValue(fn_result).reordered_key
        /\ TheValue(fn_result).key.prefix = "svg:"
\* three parameters given in two different orders
C14_Witness ==
    /\ fn_result # None
    /\ Len(TheValue(fn_args).params) = 3
    /\ TheValue(fn_args).params[1][1] # TheValue(fn_args).reordered[1][1]
    /\ TheValue(fn_args).params[3][1] # TheValue(fn_args).reordered[3][1]

\* C15 (as claimed): with the cache enabled and the store available, after
\* set(k, V, ttl = t) was applied at time a (and k not set again since),
\* exists(k) is TRUE and get(k) returns V at every time before a + t, and
\* exists(k) is FALSE and get(k) absent from a + t on.
DeclaredTtl(ttl) == IF ttl = None THEN cache_ttl ELSE TheValue(ttl)
C15_ExistsUntilTtl ==
    CacheUsable =>
        \A k \in DOMAIN last_set :
            LET deadline == last_set[k].at + DeclaredTtl(last_set[k].ttl)
            IN  IF now < deadline
                THEN /\ exists(k, TRUE).value = TRUE
                     /\ get(k, TRUE).value = Some(last_set[k].value)
                ELSE /\ exists(k, TRUE).value = FALSE
                     /\ get(k, TRUE).value = None

\* ---- the whole-document vectorizer
Vectorized(color_mode) ==
    /\ fn_result # None
    /\ "image_array" \in DOMAIN TheValue(fn_args)
    /\ "doc" \in DOMAIN TheValue(fn_result)
    /\ TheValue(fn_args).color_mode = color_mode
TheGrid == TheValue(fn_args).image_array
TheParts == TheValue(fn_result).doc.svg_parts
\* the rectangles between the root element and the closing tag
ThePaths == [i \in 1..(Len(TheParts) - 2) |-> TheParts[i + 1].rect]
Columns == 0..(Width(TheGrid) - 1)
Rows == 0..(Height(TheGrid) - 1)
Dark(x, y) == Pixel(TheGrid, y, x) < 128
Covered(r) ==
    {<<r.x + dx, r.y + dy>> : dx \in 0..(r.width - 1), dy \in 0..(r.height - 1)}
PathSet == {ThePaths[i] : i \in 1..Len(ThePaths)}

\* C16: in binary mode, for either value of simplify, the pixels covered by
\* the emitted rectangles are exactly the pixels of intensity below 128, no
\* pixel is covered by two rectangles, and every rectangle has height 1.
C16_BinaryCoverage ==
    Vectorized("binary") =>
        /\ UNION {Covered(ThePaths[i]) : i \in 1..Len(ThePaths)}
               = {<<x, y>> \in Columns \X Rows : Dark(x, y)}
        /\ \A i, j \in 1..Len(ThePaths) :
               i # j => Covered(ThePaths[i]) \cap Covered(ThePaths[j]) = {}
        /\ \A i \in 1..Len(ThePaths) : ThePaths[i].height = 1
\* a merged run with dark pixels right below it, next to a pixel of 128
C16_Witness ==
    /\ Vectorized("binary") /\ TheValue(fn_args).simplify
    /\ TheGrid = << <<127, 127, 128>>, <<127, 127, 128>> >>
    /\ ThePaths = <<Rect(0, 0, 2, 1, Black), Rect(0, 1, 2, 1, Black)>>

\* C17: in binary mode every maximal horizontal run of dark pixels, of
\* length L, gives exactly one rectangle of width L and height 1 at the
\* run's first column when simplify holds and L > 1, and otherwise exactly L
\* unit rectangles, one per pixel of the run; nothing else is emitted.
MaximalRuns ==
    {run \in Columns \X Rows \X (1..Width(TheGrid)) :
        LET x0 == run[1]
            y == run[2]
            L == run[3]
        IN  /\ x0 + L <= Width(TheGrid)
            /\ \A x \in x0..(x0 + L - 1) : Dark(x, y)
            /\ x0 = 0 \/ ~Dark(x0 - 1, y)
            /\ x0 + L = Width(TheGrid) \/ ~Dark(x0 + L, y)}
RectsOfRun(run, simplify) ==
    IF simplify /\ run[3] > 1
    THEN {Rect(run[1], run[2], run[3], 1, Black)}
    ELSE {Rect(run[1] + i, run[2], 1, 1, Black) : i \in 0..(run[3] - 1)}
C17_BinaryRunEncoding ==
    Vectorized("binary") =>
        LET expected == UNION {RectsOfRun(run, TheValue(fn_args).simplify) :
                                  run \in MaximalRuns}
        IN  /\ PathSet = expected
            /\ Len(ThePaths) = Cardinality(expected)
\* a run of two and a run of one in one row, under simplify
C17_Witness ==
    /\ Vectorized("binary") /\ TheValue(fn_args).simplify
    /\ MaximalRuns = {<<0, 0, 2>>, <<3, 0, 1>>}
    /\ ThePaths = <<Rect(0, 0, 2, 1, Black), Rect(3, 0, 1, 1, Black)>>

\* C18: in grayscale mode, with stride s = 2 if simplify else 1, exactly one
\* rectangle is emitted for every position (x, y) of the grid with x and y
\* multiples of s; it has side s and is filled with the intensity of pixel
\* (x, y) itself.
C18_GrayscaleSampling ==
    Vectorized("grayscale") =>
        LET s == IF TheValue(fn_args).simplify THEN 2 ELSE 1
            sampled == {p \in Columns \X Rows : p[1] % s = 0 /\ p[2] % s = 0}
        IN  /\ PathSet = {Rect(p[1], p[2], s, s, Rgb(Pixel(TheGrid, p[2], p[1]))) :
                              p \in sampled}
            /\ Len(ThePaths) = Cardinality(sampled)
\* stride 2 over a 2 x 3 grid whose sampled pixels differ from their neighbours
C18_Witness ==
    /\ Vectorized("grayscale") /\ TheValue(fn_args).simplify
    /\ TheGrid = << <<127, 128, 128, 127>>, <<128, 128, 127, 127>> >>
    /\ ThePaths = <<Rect(0, 0, 2, 2, Rgb(127)), Rect(2, 0, 2, 2, Rgb(128))>>

\* ---- the streaming vectorizer
Gen == TheValue(fn_result)
Streaming == fn_result # None /\ "events" \in DOMAIN Gen
StreamDone == Streaming /\ Gen.at = "done"
StreamGrid == TheValue(fn_args).streamed
IsFragment(e) == e.kind # "yield_control"
IsYield(e) == e.kind = "yield_control"
Fragments == SelectSeq(Gen.events, IsFragment)
Yields == SelectSeq(Gen.events, IsYield)
\* rectangle r is a maximal dark run of row r.y of the streamed grid
IsRunOfGrid(r) ==
    /\ r.height = 1 /\ r.width >= 1
    /\ r.y \in 0..(Height(StreamGrid) - 1)
    /\ r.x >= 0 /\ r.x + r.width <= Width(StreamGrid)
    /\ \A x \in r.x..(r.x + r.width - 1) : Pixel(StreamGrid, r.y, x) < 128
    /\ r.x = 0 \/ Pixel(StreamGrid, r.y, r.x - 1) >= 128
    /\ r.x + r.width = Width(StreamGrid) \/ Pixel(StreamGrid, r.y, r.x + r.width) >= 128

\* C19: vectorize_streaming ends for every grid, and what it has emitted
\* then is the root element, the rectangles, the closing element: the
\* rectangles in ascending band order, row-major inside a band, each one
\* lying in the rows of its band at the row of the grid it encodes; the
\* bands start at row 0, each starts where the one before ended, the last
\* ends at the last row.
StreamShape ==
    LET f == Fragments
        n == Len(f)
        ys == Yields
        ch == ChunkHeight(Height(StreamGrid))
    IN  /\ n >= 2
        /\ f[1] = RootFragment(Width(StreamGrid), Height(StreamGrid))
        /\ f[n] = CloseFragment
        /\ \A i \in 2..(n - 1) :
               /\ f[i].kind = "rect"
               /\ f[i].rect.y >= f[i].y_start
               /\ f[i].rect.y < f[i].y_start + ch
               /\ IsRunOfGrid(f[i].rect)
        /\ \A i, j \in 2..(n - 1) :
               i < j =>
                   /\ f[i].y_start <= f[j].y_start
                   /\ \/ f[i].rect.y < f[j].rect.y
                      \/ f[i].rect.y = f[j].rect.y /\ f[i].rect.x < f[j].rect.x
        /\ Len(ys) >= 1
        /\ ys[1].y_start = 0
        /\ ys[Len(ys)].y_end = Height(StreamGrid)
        /\ \A k \in 1..Len(ys) : ys[k].y_start < ys[k].y_end
        /\ \A k \in 1..(Len(ys) - 1) : ys[k + 1].y_start = ys[k].y_end
C19_StreamOrder ==
    /\ <>(Streaming /\ Gen.at = "done")
    /\ []((Streaming /\ Gen.at = "done") => StreamShape)
\* 21 rows in bands of two: a rectangle in the second row of a band and one
\* in the last band, which has a single row
C19_Witness ==
    /\ Streaming /\ Gen.at = "done"
    /\ Height(StreamGrid) = 21
    /\ \E i, j \in 1..Len(Fragments) :
           /\ Fragments[i].kind = "rect" /\ Fragments[j].kind = "rect"
           /\ Fragments[i].y_start = 2 /\ Fragments[i].rect.y = 3
           /\ Fragments[j].y_start = 20 /\ Fragments[j].rect.y = 20

\* C20: the generator gives up the event loop once after the fragments of
\* each band: no fragment of a band is produced before the yield that
\* follows the band before it, a yield comes after all fragments of its own
\* band, and another task runs only while the generator is suspended there.
LastEvent == Gen.events[Len(Gen.events)]
C20_YieldBetweenBands ==
    Streaming =>
        LET e == Gen.events
        IN  /\ \A i \in 1..Len(e) :
                   (e[i].kind = "rect" /\ e[i].y_start > 0) =>
                       \E k \in 1..(i - 1) : IsYield(e[k]) /\ e[k].y_end = e[i].y_start
            /\ \A k \in 1..Len(e) :
                   IsYield(e[k]) =>
                       /\ \A i \in 1..Len(e) :
                              e[i].kind = "rect" =>
                                  IF i < k THEN e[i].y_start <= e[k].y_start
                                           ELSE e[i].y_start >= e[k].y_end
                       /\ \A l \in 1..Len(e) :
                              (IsYield(e[l]) /\ l # k) => e[l].y_start # e[k].y_start
            /\ Gen.at = "sleeping" =>
                   IsYield(LastEvent) /\ LastEvent.y_start = Gen.y_start
            /\ (Gen.at = "band" /\ Gen.y_start > 0) =>
                   IsYield(LastEvent) /\ LastEvent.y_end = Gen.y_start
            /\ Gen.other_ran => Gen.at = "sleeping"
\* another task ran between the second band and the third, both with
\* rectangles
C20_Witness ==
    /\ Streaming /\ Gen.at = "band" /\ Gen.y_start = 6
    /\ Height(StreamGrid) = 21
    /\ \E i, j, k \in 1..Len(Gen.events) :
           /\ i < k /\ k < j
           /\ Gen.events[i].kind = "rect" /\ Gen.events[i].y_start = 2
           /\ IsYield(Gen.events[k]) /\ Gen.events[k].y_start = 2
           /\ Gen.events[j].kind = "rect" /\ Gen.events[j].y_start = 4

\* ---- documents of either encoder
VectorizedAny == \E color_mode \in ColorModes : Vectorized(color_mode)
\* parts is a root element sized as the grid, then rectangles only, then the
\* closing tag
DocShape(parts, image_array) ==
    /\ Len(parts) >= 2
    /\ parts[1] = [kind |-> "root", width |-> Width(image_array),
                   height |-> Height(image_array),
                   viewBox |-> <<0, 0, Width(image_array), Height(image_array)>>]
    /\ parts[Len(parts)] = [kind |-> "close"]
    /\ \A i \in 2..(Len(parts) - 1) : parts[i].kind = "rect"

\* C21: the document vectorize returns, and the fragments
\* vectorize_streaming has yielded when it ends, are one root element, then
\* rectangle elements only, then one closing element; the root's width and
\* height are the grid's column and row count and its viewBox is
\* "0 0 width height", for every grid, colour mode and simplify setting.
C21_DocumentShape ==
    /\ VectorizedAny => DocShape(TheParts, TheGrid)
    /\ StreamDone => DocShape(Fragments, StreamGrid)
\* a grid with more columns than rows, with and without rectangles
C21_Witness ==
    /\ Vectorized("binary")
    /\ Height(TheGrid) = 2 /\ Width(TheGrid) = 3
    /\ Len(TheParts) = 4
    /\ TheParts[1].viewBox = <<0, 0, 3, 2>>

\* ---- the resize stage
Resized == fn_result # None /\ "ran" \in DOMAIN TheValue(fn_result)
OldSize == TheValue(fn_args).size
\* n is old scaled by max_image_dimension / long_side, cut to a whole
\* number, give or take the last bit of the floating-point product
ScaledWithinRounding(n, old, long_side) ==
    /\ n * long_side <= old * max_image_dimension
    /\ (n + 2) * long_side > old * max_image_dimension

\* C22: the resize stage of preprocess runs exactly when resize is true and
\* the width or the height is above max_dimension; when it runs, both new
\* dimensions are at most max_dimension and each is the old one scaled by
\* min(max_dimension / width, max_dimension / height) and truncated; when
\* it does not run the size is left as it was.
C22_ResizeInvariant ==
    Resized =>
        LET r == TheValue(fn_result)
            long_side == IF OldSize[1] > OldSize[2] THEN OldSize[1] ELSE OldSize[2]
            new_size == IF r.ok THEN r.size ELSE r.new_size
        IN  /\ r.ran <=> (/\ TheValue(fn_args).resize
                          /\ \/ OldSize[1] > max_image_dimension
                             \/ OldSize[2] > max_image_dimension)
            /\ r.ran =>
                   /\ new_size[1] <= max_image_dimension
                   /\ new_size[2] <= max_image_dimension
                   /\ ScaledWithinRounding(new_size[1], OldSize[1], long_side)
                   /\ ScaledWithinRounding(new_size[2], OldSize[2], long_side)
            /\ ~r.ran => r.size = OldSize
\* 5000 x 100 comes out as 4096 x 81
C22_Witness ==
    /\ Resized /\ TheValue(fn_result).ok /\ TheValue(fn_result).ran
    /\ OldSize = <<5000, 100>>
    /\ TheValue(fn_result).size = <<4096, 81>>

\* ---- the orchestrator's use of the stages and of the cache
Invocations == {"cache_get", "preprocess", "vectorize", "cache_set"}
TimesCalled(j, c) == Cardinality({i \in 1..Len(calls[j]) : calls[j][i] = c})

\* C23: a job invokes the cache lookup, preprocessing, vectorization and
\* the cache store at most once each, and once a stage has raised or the job
\* has ended it invokes nothing more.
C23_AtMostOnce ==
    /\ [](\A j \in TaskIds : \A c \in Invocations : TimesCalled(j, c) <= 1)
    /\ [][\A j \in TaskIds :
              (raised[j] # None \/ pc[j] = "done") =>
                  (calls[j]' = calls[j] /\ pc[j]' = "done")]_vars
\* a job that failed in vectorization and one that ran all four, a ttl later
C23_Witness ==
    /\ now >= cache_ttl
    /\ \E i, j \in TaskIds :
           /\ raised[i] = Some("vectorization failed")
           /\ calls[i] = <<"cache_get", "preprocess", "vectorize">>
           /\ CompletedMiss(j)
           /\ calls[j] = <<"cache_get", "preprocess", "vectorize", "cache_set">>

\* ---- the bands of the streaming vectorizer
\* C24 (as claimed): for a grid of h >= 10 rows vectorize_streaming cuts
\* exactly 10 bands, the first nine of h div 10 rows each and the last one of
\* the rows that remain.
C24_TenBands ==
    (StreamDone /\ Height(StreamGrid) >= 10) =>
        LET h == Height(StreamGrid)
            ys == Yields
        IN  /\ Len(ys) = 10
            /\ \A k \in 1..9 :
                   /\ ys[k].y_start = (k - 1) * (h \div 10)
                   /\ ys[k].y_end = k * (h \div 10)
            /\ ys[10].y_start = 9 * (h \div 10)
            /\ ys[10].y_end = h

\* the rectangles the generator has yielded, in order
StreamRects ==
    LET f == SelectSeq(Gen.events, LAMBDA e : e.kind = "rect")
    IN  [i \in 1..Len(f) |-> f[i].rect]
StreamDark(x, y) == Pixel(StreamGrid, y, x) < 128
\* pixel (x, y) is dark and so is a pixel next to it in its row
InLongRun(x, y) ==
    /\ StreamDark(x, y)
    /\ \/ x > 0 /\ StreamDark(x - 1, y)
       \/ x + 1 < Width(StreamGrid) /\ StreamDark(x + 1, y)

\* C25 (as claimed): with simplify = FALSE the streaming encoder emits one
\* unit rectangle for every dark pixel of a run of length at least 2, so
\* that each such pixel is covered by exactly one streamed rectangle.
C25_StreamUnitRectangles ==
    (StreamDone /\ ~TheValue(fn_args).simplify) =>
        \A x \in 0..(Width(StreamGrid) - 1), y \in 0..(Height(StreamGrid) - 1) :
            InLongRun(x, y) =>
                /\ Cardinality({i \in 1..Len(StreamRects) :
                                   <<x, y>> \in Covered(StreamRects[i])}) = 1
                /\ \E i \in 1..Len(StreamRects) :
                       StreamRects[i] = Rect(x, y, 1, 1, Black)

\* C26: for every grid, with simplify = TRUE and binary mode, the
\* rectangles vectorize_streaming yields, all bands in order, are the
\* rectangles of whole-document vectorize without the unit rectangles of
\* the runs of a single dark pixel; the two sequences are the same when no
\* run is that short.
IsMergedRun(rect) == rect.width > 1
NoSinglePixelRun ==
    \A x \in 0..(Width(StreamGrid) - 1), y \in 0..(Height(StreamGrid) - 1) :
        StreamDark(x, y) => InLongRun(x, y)
C26_EncodersAgree ==
    (/\ StreamDone
     /\ TheValue(fn_args).simplify
     /\ TheValue(fn_args).color_mode = "binary") =>
        LET whole == _generate_binary_paths(StreamGrid, TRUE)
        IN  /\ StreamRects = SelectSeq(whole, IsMergedRun)
            /\ NoSinglePixelRun => StreamRects = whole
\* 21 rows, each with a run of one pixel and a run of two
C26_Witness ==
    /\ StreamDone /\ TheValue(fn_args).simplify
    /\ TheValue(fn_args).color_mode = "binary"
    /\ Height(StreamGrid) = 21
    /\ StreamGrid[1] = <<127, 128, 127, 127>>
    /\ StreamGrid[2] = <<127, 127, 128, 127>>
    /\ Len(StreamRects) = 21
    /\ Len(_generate_binary_paths(StreamGrid, TRUE)) = 42

\* ---- order and extent of the rectangles of a whole document
\* C27: in the document of whole-document vectorize, in binary and in
\* grayscale mode and for both simplify settings, the rectangles come in
\* row-major order: the origins (y, x) increase strictly in lexicographic
\* order along the sequence.
C27_RowMajorOrder ==
    VectorizedAny =>
        \A i, j \in 1..Len(ThePaths) :
            i < j =>
                \/ ThePaths[i].y < ThePaths[j].y
                \/ ThePaths[i].y = ThePaths[j].y /\ ThePaths[i].x < ThePaths[j].x
\* single pixels and a merged run over two rows
C27_Witness ==
    /\ Vectorized("binary") /\ TheValue(fn_args).simplify
    /\ TheGrid = << <<127, 128, 127, 128>>, <<128, 127, 127, 127>> >>
    /\ Len(ThePaths) = 3
    /\ ThePaths[3] = Rect(1, 1, 3, 1, Black)

InsideGrid(rect) ==
    /\ 0 <= rect.x /\ 0 <= rect.y
    /\ rect.x + rect.width <= Width(TheGrid)
    /\ rect.y + rect.height <= Height(TheGrid)

\* C28 (as claimed): every rectangle of whole-document vectorize lies inside
\* the image, in both colour modes and for both simplify settings, grids of
\* odd width or height in grayscale mode with simplify = TRUE included.
C28_RectanglesInsideGrid ==
    VectorizedAny => \A i \in 1..Len(ThePaths) : InsideGrid(ThePaths[i])

\* ---- what the orchestrator writes to the cache
\* the documents a successful conversion of request (image_data, params)
\* can give
ConversionsOf(image_data, params) ==
    LET pre == preprocess(image_data, Get(params, "resize", TRUE),
                          Get(params, "enhance", FALSE),
                          Get(params, "threshold", None))
    IN  IF ~pre.ok THEN {}
        ELSE {vectorize(pre.image_array, Get(params, "color_mode", "binary"),
                        Get(params, "simplify", TRUE), TRUE, processing_time).svg :
                  processing_time \in ProcTimes}
\* job j is past a successful vectorization and has not been served from
\* the cache
MayStore(j) ==
    /\ calls[j] = <<"cache_get", "preprocess", "vectorize", "cache_set">>
    /\ raised[j] = None
    /\ locals[j].svg_result # None
    /\ TheValue(locals[j].svg_result) \in
           ConversionsOf(TheValue(args[j]).image_data, TheValue(args[j]).params)
\* the entry under k was put there by the orchestrator (and not found at
\* startup)
WrittenByJobs(k) == k \notin DOMAIN InitStore \/ store[k] # InitStore[k]

\* C29: the keyspace changes only in the store of a job that is past a
\* successful vectorization and was not served from the cache, and then
\* only at the key of the job's own image bytes and parameters, which gets
\* the job's own document as value; a job that failed or was served from
\* the cache has invoked no store; so every entry the orchestrator wrote is
\* a document of a successful conversion of the entry's fingerprint.
C29_StoreOnlyOwnSuccess ==
    /\ [][store' # store =>
              \E j \in TaskIds :
                  /\ pc[j] = "await_set" /\ pc[j]' = "set_reply"
                  /\ MayStore(j)
                  /\ \A k \in DOMAIN store' :
                         IF k = KeyOf(j)
                         THEN /\ CanDecode(store'[k].value)
                              /\ Decode(store'[k].value)
                                     = TheValue(locals[j].svg_result)
                         ELSE k \in DOMAIN store /\ store'[k] = store[k]]_vars
    /\ [](\A j \in TaskIds :
              /\ pc[j] \in {"await_set", "set_reply"} => MayStore(j)
              /\ (pc[j] = "done" /\ (raised[j] # None \/ CompletedHit(j)))
                     => ~Called(j, "cache_set"))
    /\ [](\A r \in Requests :
              LET k == generate_cache_key(r[1], r[2])
              IN  (k \in DOMAIN store /\ WrittenByJobs(k)) =>
                      /\ CanDecode(store[k].value)
                      /\ Decode(store[k].value) \in ConversionsOf(r[1], r[2]))
\* one job stored its document and the other was served it from the cache
\* without storing anything
C29_Witness ==
    \E i, j \in TaskIds :
        /\ CompletedMiss(i) /\ i \in recent_stores
        /\ CompletedHit(j) /\ SameRequest(i, j)
        /\ store[KeyOf(i)].value = Encode(completed_tasks[i].result)
        /\ completed_tasks[j].result = completed_tasks[i].result

\* ---- the ttl of an entry
\* C30 (as claimed): an entry is stored with exactly the ttl passed to set,
\* whatever its value (0 included), and with the configured default only
\* when the caller passed none.
C30_TtlOverride ==
    CacheUsable =>
        \A k \in DOMAIN last_set :
            store[k].expires =
                last_set[k].at + (IF last_set[k].ttl = None
                                  THEN cache_ttl
                                  ELSE TheValue(last_set[k].ttl))

====
